---- MODULE Spec2Model ----
(***************************************************************************)
(* Model of app.py, the Streamlit script "Grouped by Type".                *)
(*                                                                         *)
(* Text is modelled as a sequence of code points, so that joining,         *)
(* splitting and the lexicographic order of group keys are computed and    *)
(* not assumed.  A cell of the data frame is a record: either a text or    *)
(* the missing value NaN that read_excel gives for an empty cell.          *)
(* Column names are TLA+ strings: the code only tests them for equality.   *)
(***************************************************************************)
EXTENDS Integers, Sequences, FiniteSets, TLC

\* ------------------------------------------------------------- bounds
\* The largest number of data rows of an uploaded sheet.
MaxRows == 2

\* The largest number of data rows of a sheet with an unusual header or of a
\* file over the size limit.
MaxOtherRows == 1

\* ------------------------------------------------------------- helpers
Range(s) == { s[i] : i \in 1..Len(s) }

SeqsUpTo(S, n) == UNION { [1..k -> S] : k \in 0..n }

RECURSIVE Perms(_)
\* All orderings, as sequences, of the finite set S.
Perms(S) ==
    IF S = {} THEN { <<>> }
    ELSE UNION { { <<x>> \o p : p \in Perms(S \ {x}) } : x \in S }

\* ------------------------------------------------------------- cells
NaN == [nan |-> TRUE, text |-> <<>>]
Str(t) == [nan |-> FALSE, text |-> t]

\* " OR ", the default of the separator text input.
DefaultSeparator == <<32, 79, 82, 32>>

\* The separators the user types: the default and the empty string.
Separators == { DefaultSeparator, <<>> }

\* The cells of the 'Type' column: "B", "A" and the empty cell.
TypeCells == { Str(<<66>>), Str(<<65>>), NaN }

\* The texts of the 'Object Name' column: "a", "b" and "a OR b".
NameTexts == { <<97>>, <<98>>, <<97, 32, 79, 82, 32, 98>> }

NameCells == { Str(t) : t \in NameTexts } \cup { NaN }

CellsOf(col) ==
    IF col = "Type" THEN TypeCells
    ELSE IF col = "Object Name" THEN NameCells
    ELSE { Str(<<97>>) }

\* The header rows of the sheets: both required columns in either position
\* (and beside another column), one of them missing, a lower-case 'type'
\* in place of 'Type', and neither.
Headers ==
    { <<"Type", "Object Name">>,
      <<"Object Name", "type", "Type">>,
      <<"Type">>,
      <<"type", "Object Name">>,
      <<"Notes">> }

\* uploaded_file.size is compared with 100 * 1024 * 1024.
SizeLimit == 100 * 1024 * 1024

\* A file just at the limit and a file one byte over it.
Sizes == { SizeLimit, SizeLimit + 1 }

NoFile == [isNone |-> TRUE, corrupt |-> FALSE, size |-> 0,
           columns |-> <<>>, rows |-> <<>>]

\* The data rows a sheet with header h can hold.
RowsOf(h) ==
    { r \in [Range(h) -> TypeCells \cup NameCells] :
        \A c \in Range(h) : r[c] \in CellsOf(c) }

CanonicalHeader == <<"Type", "Object Name">>

Sheet(h, r, z) ==
    [isNone |-> FALSE, corrupt |-> FALSE, size |-> z, columns |-> h, rows |-> r]

\* The files a user can upload: workbooks whose first sheet has the usual
\* header and up to MaxRows data rows; workbooks with another header, or
\* over the size limit, with up to MaxOtherRows data rows; and a file that
\* is no readable workbook.
Files ==
    { Sheet(CanonicalHeader, r, SizeLimit) :
        r \in SeqsUpTo(RowsOf(CanonicalHeader), MaxRows) }
    \cup UNION { { Sheet(h, r, z) :
                     r \in SeqsUpTo(RowsOf(h), MaxOtherRows), z \in Sizes }
                 : h \in Headers }
    \cup { [isNone |-> FALSE, corrupt |-> TRUE, size |-> SizeLimit,
            columns |-> <<>>, rows |-> <<>>] }

\* ------------------------------------------------------------- text
RECURSIVE LexLess(_, _)
\* a < b for Python strings: code point by code point, a proper prefix first.
LexLess(a, b) ==
    IF b = <<>> THEN FALSE
    ELSE IF a = <<>> THEN TRUE
    ELSE IF a[1] # b[1] THEN a[1] < b[1]
    ELSE LexLess(Tail(a), Tail(b))

RECURSIVE SortedSeq(_)
\* The texts of S in ascending order.
SortedSeq(S) ==
    IF S = {} THEN <<>>
    ELSE LET m == CHOOSE x \in S : \A y \in S \ {x} : LexLess(x, y)
         IN  <<m>> \o SortedSeq(S \ {m})

RECURSIVE JoinTrailing(_, _)
\* A join that writes the separator after every text, the last included.
JoinTrailing(texts, sep) ==
    IF texts = <<>> THEN <<>>
    ELSE texts[1] \o sep \o JoinTrailing(Tail(texts), sep)

RECURSIVE Join(_, _)
\* sep.join(texts)
Join(texts, sep) ==
    IF texts = <<>> THEN <<>>
    ELSE IF Len(texts) = 1 THEN texts[1]
    ELSE texts[1] \o sep \o Join(Tail(texts), sep)

\* ------------------------------------------------------------- pandas
DataFrame(columns, rows) == [isNone |-> FALSE, columns |-> columns, rows |-> rows]

None == [isNone |-> TRUE, columns |-> <<>>, rows |-> <<>>]

\* pd.read_excel(file): raises on a file that is no workbook.
read_excel(file) ==
    [raised |-> file.corrupt,
     df     |-> DataFrame(file.columns, file.rows)]

required_columns == <<"Type", "Object Name">>

\* A validation that accepts a table holding any one of the required columns.
HasAnyRequiredColumn(df) ==
    \E i \in 1..Len(required_columns) :
        required_columns[i] \in Range(df.columns)

\* all(col in df.columns for col in required_columns)
HasRequiredColumns(df) ==
    \A i \in 1..Len(required_columns) :
        required_columns[i] \in Range(df.columns)

\* A grouping that keeps the rows with a missing key, as one more group.
GroupKeySetKeepingMissing(df) ==
    { df.rows[i]["Type"].text : i \in 1..Len(df.rows) }

\* The group keys of df.groupby('Type'): the distinct values of the column,
\* rows with a missing key dropped (dropna=True).
GroupKeySet(df) ==
    { df.rows[i]["Type"].text :
        i \in { j \in 1..Len(df.rows) : ~df.rows[j]["Type"].nan } }

RECURSIVE FirstAppearance(_, _)
FirstAppearance(rows, seen) ==
    IF rows = <<>> THEN <<>>
    ELSE IF rows[1]["Type"].nan \/ rows[1]["Type"].text \in seen
         THEN FirstAppearance(Tail(rows), seen)
         ELSE <<rows[1]["Type"].text>>
              \o FirstAppearance(Tail(rows), seen \cup { rows[1]["Type"].text })

\* A grouping that emits the keys in the order of their first rows (sort=False).
GroupKeysUnsorted(df) == FirstAppearance(df.rows, {})

\* The keys in the order groupby emits them (sort=True).
GroupKeys(df) == SortedSeq(GroupKeySet(df))

RECURSIVE SelectRows(_, _)
SelectRows(rows, key) ==
    IF rows = <<>> THEN <<>>
    ELSE IF rows[1]["Type"] = Str(key)
         THEN <<rows[1]>> \o SelectRows(Tail(rows), key)
         ELSE SelectRows(Tail(rows), key)

\* The 'Object Name' cells of the group of key, in row order.
GroupValues(df, key) ==
    LET g == SelectRows(df.rows, key)
    IN  [i \in 1..Len(g) |-> g[i]["Object Name"]]

\* list(set(values)): the distinct texts, in the iteration order that the
\* process's string hashing gives them.
ListOfSet(values, order) ==
    SelectSeq(order, LAMBDA t : Str(t) \in Range(values))

\* A join of the values as they come, duplicates included.
join_all(values, separator, order) ==
    [raised |-> NaN \in Range(values),
     text   |-> Join([i \in 1..Len(values) |-> values[i].text], separator)]

\* join_unique(values): str.join raises TypeError on a value that is no str.
join_unique(values, separator, order) ==
    [raised |-> NaN \in Range(values),
     text   |-> Join(ListOfSet(values, order), separator)]

\* df.groupby('Type')['Object Name'].agg(join_unique).reset_index()
GroupedRows(df, separator, order) ==
    LET keys == GroupKeys(df)
    IN  [i \in 1..Len(keys) |->
            [Type |-> keys[i],
             joined |-> join_unique(GroupValues(df, keys[i]), separator, order)]]

\* An aggregation that raises on a frame without groups.
AggregateSomeGroup(df, separator, order) ==
    LET g == GroupedRows(df, separator, order)
    IN  [raised |-> Len(g) = 0 \/ \E i \in 1..Len(g) : g[i].joined.raised,
         df     |-> DataFrame(<<"Type", "Object Name">>,
                      [i \in 1..Len(g) |->
                          ("Type" :> Str(g[i].Type)) @@
                          ("Object Name" :> Str(g[i].joined.text))])]

Aggregate(df, separator, order) ==
    LET g == GroupedRows(df, separator, order)
    IN  [raised |-> \E i \in 1..Len(g) : g[i].joined.raised,
         df     |-> DataFrame(<<"Type", "Object Name">>,
                      [i \in 1..Len(g) |->
                          ("Type" :> Str(g[i].Type)) @@
                          ("Object Name" :> Str(g[i].joined.text))])]

\* ------------------------------------------------------------- messages
\* A message that lists the first required column only.
FirstColumnMessage ==
    [text |-> "File must contain columns", columns |-> <<required_columns[1]>>]

\* st.error(f"File must contain columns: {required_columns}")
ColumnsMessage ==
    [text |-> "File must contain columns", columns |-> required_columns]

\* st.error(f"Error processing file: {str(e)}")
ExceptionMessage == [text |-> "Error processing file", columns |-> <<>>]

\* st.error("File size too large. Please upload files under 100MB")
SizeMessage == [text |-> "File size too large", columns |-> <<>>]

\* ------------------------------------------------------------- the function
\* A function that hands back the table it read when the grouping raises.
process_excel_data_partial(file, separator, order) ==
    LET rd == read_excel(file)
        ag == Aggregate(rd.df, separator, order)
    IN  IF rd.raised
        THEN [raw_df |-> None, grouped_df |-> None, messages |-> <<ExceptionMessage>>]
        ELSE IF ~HasRequiredColumns(rd.df)
        THEN [raw_df |-> None, grouped_df |-> None, messages |-> <<ColumnsMessage>>]
        ELSE IF ag.raised
        THEN [raw_df |-> rd.df, grouped_df |-> None, messages |-> <<ExceptionMessage>>]
        ELSE [raw_df |-> rd.df, grouped_df |-> ag.df, messages |-> <<>>]

\* process_excel_data(file, separator), run in a process whose sets of
\* strings iterate in the given order: the pair it returns and the error
\* it displays.
process_excel_data(file, separator, order) ==
    LET rd == read_excel(file)
        ag == Aggregate(rd.df, separator, order)
    IN  IF rd.raised
        THEN [raw_df |-> None, grouped_df |-> None, messages |-> <<ExceptionMessage>>]
        ELSE IF ~HasRequiredColumns(rd.df)
        THEN [raw_df |-> None, grouped_df |-> None, messages |-> <<ColumnsMessage>>]
        ELSE IF ag.raised
        THEN [raw_df |-> None, grouped_df |-> None, messages |-> <<ExceptionMessage>>]
        ELSE [raw_df |-> rd.df, grouped_df |-> ag.df, messages |-> <<>>]

\* A cache keyed by the file alone.
CacheKeyOfFile(file, separator) == [file |-> file, separator |-> <<>>]

\* The key under which @st.cache_data stores a call: its arguments.
CacheKey(file, separator) == [file |-> file, separator |-> separator]

\* The sidebar's size check.
TooLarge(file) == file.size > SizeLimit

\* A main content that skips a file the sidebar found too large.
ProcessesWithinLimit(file) == ~file.isNone /\ ~TooLarge(file)

\* Whether the main content calls process_excel_data.
Processes(file) == ~file.isNone

\* if raw_df is not None and grouped_df is not None
ShowsResult(raw, grouped) == ~raw.isNone /\ ~grouped.isNone

\* ------------------------------------------------------------- state
VARIABLES
    userFile,       \* the file on the user's disk, the one they upload
    uploaded_file,  \* the file uploader's value: NoFile or the uploaded file
    separator,      \* the separator text input's value
    hashOrder,      \* the order in which this process iterates sets of strings
    cache,          \* the entries of @st.cache_data: key, value
    raw_df,         \* the script's raw_df after its last run
    grouped_df,     \* the script's grouped_df after its last run
    errors,         \* the st.error messages of the last run, in order
    shown,          \* the other elements the last run displayed
    download        \* the workbook behind the download button, or None

vars == <<userFile, uploaded_file, separator, hashOrder, cache,
          raw_df, grouped_df, errors, shown, download>>

HashOrders == Perms(NameTexts)

NoDownload == [isNone |-> TRUE, grouped |-> None, raw |-> None]

\* One run of the script, top to bottom, with the widgets holding file and sep.
Script(file, sep) ==
    LET key   == CacheKey(file, sep)
        hit   == \E e \in cache : e.key = key
        value == IF hit THEN (CHOOSE e \in cache : e.key = key).value
                 ELSE process_excel_data(file, sep, hashOrder)
        sizeErrors == IF ~file.isNone /\ TooLarge(file) THEN <<SizeMessage>> ELSE <<>>
    IN  /\ uploaded_file' = file
        /\ separator' = sep
        /\ IF Processes(file)
           THEN /\ cache' = IF hit THEN cache ELSE cache \cup { [key |-> key, value |-> value] }
                /\ raw_df' = value.raw_df
                /\ grouped_df' = value.grouped_df
                /\ errors' = sizeErrors \o value.messages
                /\ IF ShowsResult(value.raw_df, value.grouped_df)
                   THEN /\ shown' = { "Original Data", "Grouped Result",
                                      "Download Result", "success" }
                        /\ download' = [isNone |-> FALSE,
                                        grouped |-> value.grouped_df,
                                        raw |-> value.raw_df]
                   ELSE /\ shown' = {}
                        /\ download' = NoDownload
           ELSE /\ cache' = cache
                /\ raw_df' = None
                /\ grouped_df' = None
                /\ errors' = <<>>
                /\ shown' = { "info", "Example of Required Data Format" }
                /\ download' = NoDownload

Init ==
    /\ userFile \in Files
    /\ uploaded_file = NoFile
    /\ separator = DefaultSeparator
    /\ hashOrder \in HashOrders
    /\ cache = {}
    /\ raw_df = None
    /\ grouped_df = None
    /\ errors = <<>>
    /\ shown = { "info", "Example of Required Data Format" }
    /\ download = NoDownload

\* The user uploads their file.
Upload ==
    /\ uploaded_file.isNone
    /\ Script(userFile, separator)
    /\ UNCHANGED <<userFile, hashOrder>>

\* The user removes the uploaded file.
Remove ==
    /\ ~uploaded_file.isNone
    /\ Script(NoFile, separator)
    /\ UNCHANGED <<userFile, hashOrder>>

\* The user edits the separator.
SetSeparator ==
    \E s \in Separators \ {separator} :
        /\ Script(uploaded_file, s)
        /\ UNCHANGED <<userFile, hashOrder>>

\* Any other interaction: the script runs again with the widgets unchanged.
Rerun ==
    /\ ~uploaded_file.isNone
    /\ Script(uploaded_file, separator)
    /\ UNCHANGED <<userFile, hashOrder>>

\* The server process is started anew: a new hash seed, an empty cache,
\* a new session with the widgets at their defaults.
Restart ==
    /\ hashOrder' \in HashOrders
    /\ cache' = {}
    /\ uploaded_file' = NoFile
    /\ separator' = DefaultSeparator
    /\ raw_df' = None
    /\ grouped_df' = None
    /\ errors' = <<>>
    /\ shown' = { "info", "Example of Required Data Format" }
    /\ download' = NoDownload
    /\ UNCHANGED userFile

Next == Upload \/ Remove \/ SetSeparator \/ Rerun \/ Restart

Spec == Init /\ [][Next]_vars

\* ------------------------------------------------------------- claims
\* The script has run with a readable workbook in the uploader.
Uploaded == ~uploaded_file.isNone

ReadableUpload == Uploaded /\ ~uploaded_file.corrupt

TypePresent == "Type" \in Range(uploaded_file.columns)

NamePresent == "Object Name" \in Range(uploaded_file.columns)

\* The required columns the uploaded sheet lacks.
MissingColumns ==
    { c \in {"Type", "Object Name"} : c \notin Range(uploaded_file.columns) }

ValidationFailed == ColumnsMessage \in Range(errors)

\* The rows of the uploaded sheet that carry a group key.
KeyedRows ==
    { i \in 1..Len(uploaded_file.rows) : ~uploaded_file.rows[i]["Type"].nan }

\* Grouping raises: a keyed row has no text in 'Object Name'.
GroupingRaises ==
    \E i \in KeyedRows : uploaded_file.rows[i]["Object Name"].nan

Grouped == Uploaded /\ ~grouped_df.isNone

\* C1: validation succeeds exactly when the table holds both 'Type' and
\* 'Object Name', in any position and spelled exactly: a table lacking one
\* or both fails with the column error and no derived table, and a table
\* holding both goes on to grouping (which ends with the derived table or
\* with the error of the grouping itself).
C1_ValidationIffBothColumns ==
    ReadableUpload =>
        IF TypePresent /\ NamePresent
        THEN /\ ~ValidationFailed
             /\ IF GroupingRaises
                THEN grouped_df.isNone /\ ExceptionMessage \in Range(errors)
                ELSE ~grouped_df.isNone
        ELSE /\ ValidationFailed
             /\ raw_df.isNone
             /\ grouped_df.isNone
             /\ download.isNone

\* A sheet with 'type' in place of 'Type' has been refused.
C1_Witness ==
    /\ ReadableUpload
    /\ uploaded_file.columns = <<"type", "Object Name">>
    /\ ValidationFailed
    /\ grouped_df.isNone

\* C2 as stated: when validation fails, the error names exactly the
\* required columns that are missing, and none that is present.
C2_NamesExactlyMissing ==
    (ReadableUpload /\ ValidationFailed) =>
        \A i \in 1..Len(errors) :
            errors[i].text = "File must contain columns" =>
                Range(errors[i].columns) = MissingColumns

\* C2 amended: when validation fails, the error names the whole list of
\* required columns, 'Type' and 'Object Name', whichever of them is
\* missing; so it names every missing column, and may name a present one.
C2_NamesAllRequired ==
    (ReadableUpload /\ MissingColumns # {}) =>
        /\ errors # <<>>
        /\ errors[Len(errors)].text = "File must contain columns"
        /\ errors[Len(errors)].columns = <<"Type", "Object Name">>
        /\ MissingColumns \subseteq Range(errors[Len(errors)].columns)

\* Only 'Object Name' is missing and the error is on display.
C2_Witness ==
    /\ ReadableUpload
    /\ MissingColumns = {"Object Name"}
    /\ ValidationFailed

\* The index of the first uploaded row whose key is k.
FirstRowOf(k) ==
    CHOOSE i \in KeyedRows :
        /\ uploaded_file.rows[i]["Type"].text = k
        /\ \A j \in KeyedRows : uploaded_file.rows[j]["Type"].text = k => i <= j

KeyAt(i) == grouped_df.rows[i]["Type"].text

\* C3 as stated: the derived rows are in the order in which their keys
\* first appear in the input.
C3_FirstAppearanceOrder ==
    Grouped =>
        \A i, j \in 1..Len(grouped_df.rows) :
            i < j => FirstRowOf(KeyAt(i)) < FirstRowOf(KeyAt(j))

\* C3 amended: the derived rows are in ascending order of their keys
\* (code point by code point), whatever the order of the input rows.
C3_AscendingKeyOrder ==
    Grouped =>
        \A i, j \in 1..Len(grouped_df.rows) :
            i < j => LexLess(KeyAt(i), KeyAt(j))

\* Two groups whose keys first appear in descending order.
C3_Witness ==
    /\ Grouped
    /\ Len(grouped_df.rows) = 2
    /\ FirstRowOf(KeyAt(2)) < FirstRowOf(KeyAt(1))

\* The cells of the 'Type' column of the uploaded sheet.
TypeCellsOfUpload ==
    { uploaded_file.rows[i]["Type"] : i \in 1..Len(uploaded_file.rows) }

DerivedKeyCells ==
    { grouped_df.rows[i]["Type"] : i \in 1..Len(grouped_df.rows) }

NoRepeatedKey ==
    \A i, j \in 1..Len(grouped_df.rows) :
        grouped_df.rows[i]["Type"] = grouped_df.rows[j]["Type"] => i = j

\* C4 as stated: one derived row for each distinct value of the 'Type'
\* column, every cell value included, and no other; so at most as many rows
\* as the input, and as many exactly when the input keys are all distinct.
C4_OneRowPerCellValue ==
    Grouped =>
        /\ NoRepeatedKey
        /\ DerivedKeyCells = TypeCellsOfUpload
        /\ Len(grouped_df.rows) <= Len(uploaded_file.rows)
        /\ (Len(grouped_df.rows) = Len(uploaded_file.rows))
             <=> (Cardinality(TypeCellsOfUpload) = Len(uploaded_file.rows))

\* C4 amended: one derived row for each distinct value of the 'Type'
\* column that is not a missing (empty) cell, and no other; rows with a
\* missing key are dropped.  So at most as many rows as the input has keyed
\* rows, and as many as the input has rows exactly when every input row has
\* a key and the keys are all distinct.
C4_OneRowPerPresentKey ==
    Grouped =>
        /\ NoRepeatedKey
        /\ DerivedKeyCells = TypeCellsOfUpload \ {NaN}
        /\ Len(grouped_df.rows) <= Cardinality(KeyedRows)
        /\ (Len(grouped_df.rows) = Len(uploaded_file.rows))
             <=> /\ Cardinality(KeyedRows) = Len(uploaded_file.rows)
                 /\ Cardinality(TypeCellsOfUpload) = Len(uploaded_file.rows)

\* A sheet with a keyed row and a row without key has been grouped.
C4_Witness ==
    /\ Grouped
    /\ NaN \in TypeCellsOfUpload
    /\ Len(grouped_df.rows) = 1
    /\ Len(uploaded_file.rows) = 2

JoinedAt(i) == grouped_df.rows[i]["Object Name"].text

\* The distinct 'Object Name' texts among the uploaded rows of the i-th group.
DistinctValues(i) ==
    { uploaded_file.rows[j]["Object Name"].text :
        j \in { k \in KeyedRows : uploaded_file.rows[k]["Type"].text = KeyAt(i) } }

RECURSIVE Split(_, _)
\* text.split(sep) for a non-empty sep: cut at the leftmost occurrences.
Split(text, sep) ==
    LET n    == Len(sep)
        hits == { i \in 1..(Len(text) - n + 1) : SubSeq(text, i, i + n - 1) = sep }
    IN  IF hits = {} THEN <<text>>
        ELSE LET i == CHOOSE h \in hits : \A g \in hits : h <= g
             IN  <<SubSeq(text, 1, i - 1)>>
                 \o Split(SubSeq(text, i + n, Len(text)), sep)

\* The pieces are pairwise different and are exactly the texts of D.
SplitsInto(text, sep, D) ==
    LET pieces == Split(text, sep)
    IN  /\ \A a, b \in 1..Len(pieces) : pieces[a] = pieces[b] => a = b
        /\ Range(pieces) = D

SeparatorClear(i) ==
    /\ separator # <<>>
    /\ \A v \in DistinctValues(i) : separator[1] \notin Range(v)

RECURSIVE Interleave(_, _)
\* The texts of p written one after the other with sep between neighbours.
Interleave(p, sep) ==
    IF p = <<>> THEN <<>>
    ELSE IF Len(p) = 1 THEN p[1]
    ELSE Interleave(SubSeq(p, 1, Len(p) - 1), sep) \o sep \o p[Len(p)]

RECURSIVE TotalLen(_)
TotalLen(D) ==
    IF D = {} THEN 0
    ELSE LET v == CHOOSE x \in D : TRUE IN Len(v) + TotalLen(D \ {v})

\* C6: a group with one distinct value, from however many rows, is joined
\* to that value itself; a group with n distinct values is joined to these
\* values in some order with the separator between neighbours, so with
\* exactly n-1 separators written.
C6_SeparatorOnlyBetweenValues ==
    Grouped =>
        \A i \in 1..Len(grouped_df.rows) :
            LET D == DistinctValues(i)
            IN  /\ Cardinality(D) = 1 => JoinedAt(i) \in D
                /\ \E p \in Perms(D) : JoinedAt(i) = Interleave(p, separator)
                /\ Len(JoinedAt(i)) =
                     TotalLen(D) + (Cardinality(D) - 1) * Len(separator)

\* Two rows of one group carry the same value, and the separator is not empty.
C6_Witness ==
    /\ Grouped
    /\ separator # <<>>
    /\ Len(uploaded_file.rows) = 2
    /\ Len(grouped_df.rows) = 1
    /\ Cardinality(DistinctValues(1)) = 1

\* C7: a table with both required columns and no rows is grouped without
\* error: the derived table has no rows, the original table comes back
\* unchanged, and the result is on display.
C7_EmptyTableSucceeds ==
    (ReadableUpload /\ TypePresent /\ NamePresent /\ uploaded_file.rows = <<>>) =>
        /\ ~grouped_df.isNone
        /\ grouped_df.rows = <<>>
        /\ raw_df = DataFrame(uploaded_file.columns, <<>>)
        /\ ColumnsMessage \notin Range(errors)
        /\ ExceptionMessage \notin Range(errors)
        /\ "Grouped Result" \in shown

C7_Witness ==
    /\ ReadableUpload
    /\ uploaded_file.columns = CanonicalHeader
    /\ uploaded_file.rows = <<>>
    /\ "success" \in shown

\* C8 as stated: the derived table is the same whenever the transformation
\* runs on this table and this separator, in this process or in any other.
C8_SameDerivedTableEveryRun ==
    Uploaded =>
        \A o \in HashOrders :
            process_excel_data(uploaded_file, separator, o).grouped_df = grouped_df

\* g is the derived table on display but for the order of the values
\* inside each joined text.
SameUpToValueOrder(g) ==
    /\ g.isNone = grouped_df.isNone
    /\ Len(g.rows) = Len(grouped_df.rows)
    /\ \A i \in 1..Len(g.rows) :
          /\ g.rows[i]["Type"] = grouped_df.rows[i]["Type"]
          /\ \E p \in Perms(DistinctValues(i)) :
                g.rows[i]["Object Name"].text = Interleave(p, separator)

\* C8 amended: within one server process the outcome depends on the table
\* and the separator alone, not on earlier invocations, so a repeated run
\* gives an equal derived table; a run in another process gives the same
\* group rows in the same order with the same values joined in each, but
\* the values inside a joined text may come in another order.
C8_RepeatableUpToValueOrder ==
    Uploaded =>
        /\ grouped_df = process_excel_data(uploaded_file, separator, hashOrder).grouped_df
        /\ raw_df = process_excel_data(uploaded_file, separator, hashOrder).raw_df
        /\ \A o \in HashOrders :
              SameUpToValueOrder(process_excel_data(uploaded_file, separator, o).grouped_df)

\* A group of two values is on display after a run with another separator.
C8_Witness ==
    /\ Grouped
    /\ \E e \in cache : e.key.separator # separator
    /\ \E i \in 1..Len(grouped_df.rows) : Cardinality(DistinctValues(i)) = 2

ResultElements ==
    { "Original Data", "Grouped Result", "Download Result", "success" }

\* C9: the function returns both tables or neither; with a required column
\* missing, or an exception while reading or grouping, it returns neither,
\* and then neither the previews nor the download nor the success message
\* are shown.
C9_AllOrNothing ==
    Uploaded =>
        /\ raw_df.isNone <=> grouped_df.isNone
        /\ (uploaded_file.corrupt \/ MissingColumns # {} \/ GroupingRaises)
             => (raw_df.isNone /\ grouped_df.isNone /\ errors # <<>>)
        /\ (raw_df.isNone \/ grouped_df.isNone)
             => (shown \cap ResultElements = {} /\ download.isNone)
        /\ ~raw_df.isNone
             => /\ raw_df = DataFrame(uploaded_file.columns, uploaded_file.rows)
                /\ ResultElements \subseteq shown
                /\ download = [isNone |-> FALSE, grouped |-> grouped_df, raw |-> raw_df]

\* The grouping has raised on a keyed row without 'Object Name'.
C9_Witness ==
    /\ ReadableUpload
    /\ MissingColumns = {}
    /\ GroupingRaises
    /\ ExceptionMessage \in Range(errors)
    /\ shown = {}

\* C10: for a file over 100 MB the size error is displayed and the file is
\* processed all the same: the outcome, the elements shown and the download
\* are those of the same file under the limit.
C10_SizeCheckDoesNotGate ==
    (Uploaded /\ uploaded_file.size > 100 * 1024 * 1024) =>
        LET small == [uploaded_file EXCEPT !.size = 100 * 1024 * 1024]
            v     == process_excel_data(small, separator, hashOrder)
        IN  /\ errors = <<SizeMessage>> \o v.messages
            /\ raw_df = v.raw_df
            /\ grouped_df = v.grouped_df
            /\ (~v.raw_df.isNone /\ ~v.grouped_df.isNone)
                 => /\ ResultElements \subseteq shown
                    /\ download = [isNone |-> FALSE, grouped |-> v.grouped_df,
                                   raw |-> v.raw_df]

\* A valid file over the limit: the size error and the download together.
C10_Witness ==
    /\ Uploaded
    /\ uploaded_file.size > 100 * 1024 * 1024
    /\ SizeMessage \in Range(errors)
    /\ "Download Result" \in shown
    /\ Len(grouped_df.rows) = 1

====
